---- MODULE Spec2Model ----
(***************************************************************************)
(* A model of tpu/templates/tpu_cnn_estimator/trainer.py: the command-line *)
(* script that parses its flags, optionally applies the notebook           *)
(* overrides, builds a (TPU)Estimator and trains a small CNN on synthetic  *)
(* data.  Tensors are modelled by their shapes, framework objects by the   *)
(* records of the arguments the script constructs them with.               *)
(***************************************************************************)
EXTENDS Integers, Sequences, FiniteSets, TLC

VARIABLES
    pc,             \* position of the script
    cli,            \* the namespace returned by parse_known_args
    env,            \* sys.modules / os.environ / numpy's generator state
    args,           \* the namespace as the script mutates it and main gets it
    log,            \* external calls made so far, in order
    estimator,      \* the estimator object main built
    mode,           \* the mode model_fn is called with
    graph,          \* the tensors model_fn built (shapes)
    estimator_spec, \* what model_fn returned
    dataset,        \* what train_input_fn returned
    batch,          \* the last batch the input iterator produced
    batches,        \* number of batches produced so far
    global_step,    \* the global step variable
    train_calls,    \* the calls of estimator.train made so far
    stop_reason     \* why estimator.train returned

vars == <<pc, cli, env, args, log, estimator, mode, graph, estimator_spec,
          dataset, batch, batches, global_step, train_calls, stop_reason>>

-----------------------------------------------------------------------------
(* Constants of the program *)

NUM_CLASSES == 10
data_size == 100
IMAGE_SIZE == 28

None == "None"                  \* Python's None where a string is expected
NoneObj == [kind |-> "None"]    \* Python's None where an object is expected
UnknownDim == -1                \* a None dimension of a static shape

TRAIN == "train"
EVAL == "eval"
PREDICT == "infer"
ModeKeys == {TRAIN, EVAL, PREDICT}

-----------------------------------------------------------------------------
(* Bounds of the model and the inputs drawn within them *)

MaxSteps == 3
MaxSmallBatch == 3
MaxSeed == 1

ModelDirs == {"/tmp/tpu-template", "gs://my-bucket/run1"}
TpuNames == {None, "my-tpu"}
ColabTpuAddrs == {None, "10.0.0.2:8470"}
BatchSizes == (1..MaxSmallBatch) \cup {16, data_size, data_size + 1, 2 * data_size + 50}
CheckpointSteps == {100, 50}

CliSpace ==
    [model_dir : ModelDirs,
     max_steps : 0..MaxSteps,
     train_batch_size : BatchSizes,
     save_checkpoints_steps : CheckpointSteps,
     use_tpu : BOOLEAN,
     tpu : TpuNames]

EnvSpace ==
    [colab : BOOLEAN,
     COLAB_TPU_ADDR : ColabTpuAddrs,
     seed : 0..MaxSeed]

-----------------------------------------------------------------------------
(* Tensor shapes and the layers of model_fn *)

RECURSIVE NumElements(_)
NumElements(shape) ==
    IF shape = <<>> THEN 1 ELSE Head(shape) * NumElements(Tail(shape))

\* output length of a window of size k moved by stride s over n positions,
\* padding 'valid' (the layers' default)
ValidOut(n, k, s) == ((n - k) \div s) + 1

\* a faulty variant: padding 'same'
conv2d_same(input, filters, kernel_size, strides) ==
    [input EXCEPT ![2] = (@ + strides[1] - 1) \div strides[1],
                  ![3] = (@ + strides[2] - 1) \div strides[2],
                  ![4] = filters]

\* tf.layers.conv2d on a (batch, height, width, channels) shape
conv2d(input, filters, kernel_size, strides) ==
    [input EXCEPT ![2] = ValidOut(@, kernel_size[1], strides[1]),
                  ![3] = ValidOut(@, kernel_size[2], strides[2]),
                  ![4] = filters]

\* tf.layers.max_pooling2d: the channels are kept
max_pooling2d(input, pool_size, strides) ==
    [input EXCEPT ![2] = ValidOut(@, pool_size[1], strides[1]),
                  ![3] = ValidOut(@, pool_size[2], strides[2])]

\* tf.reshape(tensor, (n, -1)): the -1 dimension is inferred
reshape(input, n) == <<n, NumElements(input) \div n>>

\* tf.layers.dense on a (batch, inputs) shape
dense(input, units) == [input EXCEPT ![2] = units]

\* tf.multinomial: num_samples draws per row of logits
multinomial(logits, num_samples) == [logits EXCEPT ![2] = num_samples]

-----------------------------------------------------------------------------
(* model_fn *)

RMSPropOptimizer(learning_rate) ==
    [kind |-> "RMSPropOptimizer", learning_rate |-> learning_rate]

CrossShardOptimizer(opt) ==
    [kind |-> "CrossShardOptimizer", opt |-> opt]

minimize(optimizer, loss, step) ==
    [kind |-> "minimize", optimizer |-> optimizer, loss |-> loss,
     global_step |-> step]

\* the tensors of lines 27-37, from the static shape of features
Layers(features) ==
    LET conv == conv2d(features, 16, <<4, 4>>, <<2, 2>>)
        max_pool == max_pooling2d(conv, <<4, 4>>, <<2, 2>>)
        conv_1 == conv2d(max_pool, 32, <<1, 1>>, <<1, 1>>)
        max_pool_1 == max_pooling2d(conv_1, <<2, 2>>, <<2, 2>>)
        batch_size == features[1]
        flattened == reshape(max_pool_1, batch_size)
        logits == dense(flattened, NUM_CLASSES)
    IN  [features |-> features, conv |-> conv, max_pool |-> max_pool,
         conv_1 |-> conv_1, max_pool_1 |-> max_pool_1,
         flattened |-> flattened, logits |-> logits,
         predictions |-> multinomial(logits, 1)]

Loss(labels, logits) ==
    [kind |-> "reduce_mean",
     of |-> "sparse_softmax_cross_entropy_with_logits",
     labels |-> labels, logits |-> logits]

\* lines 46-50: the optimizer, wrapped for TPUs only
Optimizer_always_wrapped(params) ==
    CrossShardOptimizer(RMSPropOptimizer("0.05"))

Optimizer(params) ==
    IF params.use_tpu
    THEN CrossShardOptimizer(RMSPropOptimizer("0.05"))
    ELSE RMSPropOptimizer("0.05")

\* lines 38-52: loss and train_op, None unless the mode is TRAIN
LossAndTrainOp_any_mode(m, labels, logits, params) ==
    LET loss == Loss(labels, logits)
    IN  [loss |-> loss,
         train_op |-> minimize(Optimizer(params), loss, "global_step")]

LossAndTrainOp(m, labels, logits, params) ==
    IF m = TRAIN
    THEN LET loss == Loss(labels, logits)
         IN  [loss |-> loss,
              train_op |-> minimize(Optimizer(params), loss, "global_step")]
    ELSE [loss |-> NoneObj, train_op |-> NoneObj]

\* lines 54-68: which spec class is returned
SpecKind_plain(params) == "EstimatorSpec"

SpecKind(params) ==
    IF params.use_tpu THEN "TPUEstimatorSpec" ELSE "EstimatorSpec"

model_fn(features, labels, m, params) ==
    LET g == Layers(features)
        predictions == [kind |-> "multinomial", shape |-> g.predictions]
        lt == LossAndTrainOp(m, labels, g.logits, params)
    IN  [kind |-> SpecKind(params),
         mode |-> m,
         predictions |-> predictions,
         loss |-> lt.loss,
         train_op |-> lt.train_op]

-----------------------------------------------------------------------------
(* train_input_fn and the tf.data pipeline it builds *)

OutOfRange == [kind |-> "OutOfRangeError"]

\* np.random.rand(d0, d1, d2, d3): only the shape of the array is kept
rand(shape) == [shape |-> shape]

\* np.random.randint(low, high, size): integers of [low, high), as the
\* generator state `seed` determines them
randint(low, high, size, seed) ==
    [i \in 1..size |-> low + ((i * (seed + 3) + 7 * seed) % (high - low))]

Dataset_from_tensor_slices(x, y) ==
    [n |-> x.shape[1],
     element_shape |-> Tail(x.shape),
     labels |-> y,
     repeat_before_batch |-> FALSE,
     batch_size |-> 0,
     drop_remainder |-> FALSE,
     repeat_after_batch |-> FALSE,
     static_shapes |-> NoneObj]

\* repeat() with no count: the elements again and again, without end
Dataset_repeat(ds) ==
    IF ds.batch_size = 0
    THEN [ds EXCEPT !.repeat_before_batch = TRUE]
    ELSE [ds EXCEPT !.repeat_after_batch = TRUE]

Dataset_batch(ds, batch_size, drop_remainder) ==
    [ds EXCEPT !.batch_size = batch_size,
               !.drop_remainder = drop_remainder,
               !.static_shapes =
                   [features |-> <<IF drop_remainder \/ ds.repeat_before_batch
                                   THEN batch_size ELSE UnknownDim>>
                                 \o ds.element_shape,
                    labels |-> <<IF drop_remainder \/ ds.repeat_before_batch
                                 THEN batch_size ELSE UnknownDim>>]]

\* TensorShape.merge_with: the known dimensions of either shape
merge_with(shape, other) ==
    [i \in 1..Len(shape) |->
        IF shape[i] = UnknownDim THEN other[i] ELSE shape[i]]

\* lines 88-97: dataset.map(set_shapes)
set_shapes(ds, batch_size) ==
    [ds EXCEPT !.static_shapes =
        [features |-> merge_with(ds.static_shapes.features,
                         <<batch_size, UnknownDim, UnknownDim, UnknownDim>>),
         labels |-> merge_with(ds.static_shapes.labels, <<batch_size>>)]]

\* line 98: prefetching changes when elements are computed, not which
Dataset_prefetch(ds, buffer_size) == ds

\* a faulty variant: batch first without drop_remainder, then repeat
train_input_fn_batch_then_repeat(params, seed) ==
    LET x == rand(<<data_size, IMAGE_SIZE, IMAGE_SIZE, 1>>)
        y == randint(0, NUM_CLASSES, data_size, seed)
        batch_size == IF "train_batch_size" \in DOMAIN params
                      THEN params.train_batch_size ELSE 16
    IN  set_shapes(
            Dataset_repeat(
                Dataset_batch(Dataset_from_tensor_slices(x, y),
                              batch_size, FALSE)),
            batch_size)

\* a faulty variant: the dataset is not repeated
train_input_fn_no_repeat(params, seed) ==
    LET x == rand(<<data_size, IMAGE_SIZE, IMAGE_SIZE, 1>>)
        y == randint(0, NUM_CLASSES, data_size, seed)
        batch_size == IF "train_batch_size" \in DOMAIN params
                      THEN params.train_batch_size ELSE 16
    IN  set_shapes(
            Dataset_batch(Dataset_from_tensor_slices(x, y), batch_size, TRUE),
            batch_size)

train_input_fn(params, seed) ==
    LET x == rand(<<data_size, IMAGE_SIZE, IMAGE_SIZE, 1>>)
        y == randint(0, NUM_CLASSES, data_size, seed)
        batch_size == IF "train_batch_size" \in DOMAIN params
                      THEN params.train_batch_size ELSE 16
    IN  Dataset_prefetch(
            set_shapes(
                Dataset_batch(
                    Dataset_repeat(Dataset_from_tensor_slices(x, y)),
                    batch_size, TRUE),
                batch_size),
            "AUTOTUNE")

\* the k-th element (k = 0, 1, ...) an iterator over the dataset yields, or
\* OutOfRange when the dataset has fewer
Example(ds, i) ==
    [features |-> [id |-> i, shape |-> ds.element_shape],
     label |-> ds.labels[i]]

MakeBatch(ds, first, count) ==
    LET ex(j) == Example(ds, ((first + j - 1) % ds.n) + 1)
    IN  [features |-> [j \in 1..count |-> ex(j).features],
         labels |-> [j \in 1..count |-> ex(j).label]]

GetNext(ds, k) ==
    LET bs == ds.batch_size
        perEpoch == IF ds.drop_remainder THEN ds.n \div bs
                    ELSE (ds.n + bs - 1) \div bs
        kk == IF ds.repeat_after_batch /\ perEpoch > 0 THEN k % perEpoch ELSE k
        left == ds.n - kk * bs
    IN  IF ds.repeat_before_batch THEN MakeBatch(ds, k * bs, bs)
        ELSE IF kk >= perEpoch THEN OutOfRange
        ELSE MakeBatch(ds, kk * bs, IF left < bs THEN left ELSE bs)

-----------------------------------------------------------------------------
(* main: the estimator it builds *)

\* a faulty variant: iterations_per_loop fixed instead of taken from the flag
TPUEstimatorOf_fixed_loop(a) ==
    [kind |-> "TPUEstimator",
     model_fn |-> "model_fn",
     config |->
        [kind |-> "tpu.RunConfig",
         cluster |-> [kind |-> "TPUClusterResolver", tpu |-> a.tpu],
         model_dir |-> a.model_dir,
         tpu_config |->
            [kind |-> "TPUConfig",
             num_shards |-> 8,
             iterations_per_loop |-> 100],
         save_checkpoints_steps |-> a.save_checkpoints_steps,
         save_summary_steps |-> 100],
     params |-> a,
     train_batch_size |-> a.train_batch_size,
     eval_batch_size |-> 32,
     export_to_tpu |-> FALSE]

\* lines 108-133
TPUEstimatorOf(a) ==
    [kind |-> "TPUEstimator",
     model_fn |-> "model_fn",
     config |->
        [kind |-> "tpu.RunConfig",
         cluster |-> [kind |-> "TPUClusterResolver", tpu |-> a.tpu],
         model_dir |-> a.model_dir,
         tpu_config |->
            [kind |-> "TPUConfig",
             num_shards |-> 8,
             iterations_per_loop |-> a.save_checkpoints_steps],
         save_checkpoints_steps |-> a.save_checkpoints_steps,
         save_summary_steps |-> 100],
     params |-> a,
     train_batch_size |-> a.train_batch_size,
     eval_batch_size |-> 32,
     export_to_tpu |-> FALSE]

\* lines 134-141
PlainEstimatorOf(a) ==
    [kind |-> "Estimator",
     model_fn |-> "model_fn",
     config |-> [kind |-> "RunConfig", model_dir |-> a.model_dir],
     params |-> a]

BuildEstimator(a) ==
    IF a.use_tpu THEN TPUEstimatorOf(a) ELSE PlainEstimatorOf(a)

-----------------------------------------------------------------------------
(* The script, step by step *)

Init ==
    /\ pc = "parsed"
    /\ cli \in CliSpace
    /\ env \in EnvSpace
    /\ args = cli
    /\ log = <<>>
    /\ estimator = NoneObj
    /\ mode = None
    /\ graph = NoneObj
    /\ estimator_spec = NoneObj
    /\ dataset = NoneObj
    /\ batch = NoneObj
    /\ batches = 0
    /\ global_step = 0
    /\ train_calls = <<>>
    /\ stop_reason = None

training == <<estimator, mode, graph, estimator_spec, dataset, batch, batches,
              global_step, train_calls, stop_reason>>

\* line 182, 'google.colab' not in sys.modules
NotNotebook ==
    /\ pc = "parsed"
    /\ ~env.colab
    /\ pc' = "ready"
    /\ UNCHANGED <<cli, env, args, log, training>>

\* a faulty variant: the notebook branch without the authentication
Authenticate_skipped ==
    /\ pc = "parsed"
    /\ env.colab
    /\ pc' = "authenticated"
    /\ UNCHANGED <<cli, env, args, log, training>>

\* lines 182-188
Authenticate ==
    /\ pc = "parsed"
    /\ env.colab
    /\ log' = Append(log, [call |-> "auth.authenticate_user"])
    /\ pc' = "authenticated"
    /\ UNCHANGED <<cli, env, args, training>>

\* line 191
SetModelDir ==
    /\ pc = "authenticated"
    /\ args' = [args EXCEPT !.model_dir = "gs://your-gcs-bucket"]
    /\ pc' = "model_dir_set"
    /\ UNCHANGED <<cli, env, log, training>>

\* line 194, COLAB_TPU_ADDR not in os.environ
NoTpuRuntime ==
    /\ pc = "model_dir_set"
    /\ env.COLAB_TPU_ADDR = None
    /\ pc' = "ready"
    /\ UNCHANGED <<cli, env, args, log, training>>

tpu_grpc == "grpc://" \o env.COLAB_TPU_ADDR

\* a faulty variant: the TPU address is set but use_tpu is left as parsed
UseColabTpu_flag_kept ==
    /\ pc = "model_dir_set"
    /\ env.COLAB_TPU_ADDR # None
    /\ args' = [args EXCEPT !.tpu = tpu_grpc]
    /\ pc' = "tpu_set"
    /\ UNCHANGED <<cli, env, log, training>>

\* lines 194-198
UseColabTpu ==
    /\ pc = "model_dir_set"
    /\ env.COLAB_TPU_ADDR # None
    /\ args' = [args EXCEPT !.tpu = tpu_grpc, !.use_tpu = TRUE]
    /\ pc' = "tpu_set"
    /\ UNCHANGED <<cli, env, log, training>>

\* lines 201-203
UploadCredentials ==
    /\ pc = "tpu_set"
    /\ log' = Append(log, [call |-> "configure_gcs", session |-> tpu_grpc])
    /\ pc' = "ready"
    /\ UNCHANGED <<cli, env, args, training>>

\* lines 205, 103-141: main(args) up to the estimator
Main ==
    /\ pc = "ready"
    /\ estimator' = BuildEstimator(args)
    /\ log' = Append(log, [call |-> "main"])
    /\ pc' = "built"
    /\ UNCHANGED <<cli, env, args, mode, graph, estimator_spec, dataset,
                   batch, batches, global_step, train_calls, stop_reason>>

\* line 143: estimator.train is entered; the estimator calls the input_fn
\* and the model_fn with its params, in mode TRAIN
TrainCall(a) == [input_fn |-> "train_input_fn", max_steps |-> a.max_steps]

Train ==
    /\ pc = "built"
    /\ train_calls' = Append(train_calls, TrainCall(args))
    /\ log' = Append(log, [call |-> "estimator.train"])
    /\ dataset' = train_input_fn(estimator.params, env.seed)
    /\ mode' = TRAIN
    /\ graph' = Layers(dataset'.static_shapes.features)
    /\ estimator_spec' = model_fn(dataset'.static_shapes.features,
                                  dataset'.static_shapes.labels,
                                  TRAIN, estimator.params)
    /\ pc' = "training"
    /\ UNCHANGED <<cli, env, args, estimator, batch, batches, global_step,
                   stop_reason>>

\* what running train_op once does to the global step
StepAfter(op, step) ==
    IF op.global_step = "global_step" THEN step + 1 ELSE step

\* estimator.train, one step: the next batch is taken and train_op run,
\* unless the input has ended
TrainStep ==
    /\ pc = "training"
    /\ global_step < train_calls[Len(train_calls)].max_steps
    /\ LET b == GetNext(dataset, batches)
       IN  IF b = OutOfRange
           THEN /\ stop_reason' = "input_exhausted"
                /\ pc' = "done"
                /\ UNCHANGED <<batch, batches, global_step>>
           ELSE /\ batch' = b
                /\ batches' = batches + 1
                /\ global_step' = StepAfter(estimator_spec.train_op, global_step)
                /\ UNCHANGED <<pc, stop_reason>>
    /\ UNCHANGED <<cli, env, args, log, estimator, mode, graph,
                   estimator_spec, dataset, train_calls>>

\* estimator.train returns when the global step has reached max_steps
TrainStop ==
    /\ pc = "training"
    /\ global_step >= train_calls[Len(train_calls)].max_steps
    /\ stop_reason' = "max_steps"
    /\ pc' = "done"
    /\ UNCHANGED <<cli, env, args, log, estimator, mode, graph,
                   estimator_spec, dataset, batch, batches, global_step,
                   train_calls>>

Next ==
    \/ NotNotebook
    \/ Authenticate
    \/ SetModelDir
    \/ NoTpuRuntime
    \/ UseColabTpu
    \/ UploadCredentials
    \/ Main
    \/ Train
    \/ TrainStep
    \/ TrainStop

Spec == Init /\ [][Next]_vars

\* the script is one sequential thread: a step that can be taken is taken
FairSpec == Spec /\ WF_vars(Next)

-----------------------------------------------------------------------------
(* model_fn on its own, for every mode an estimator may call it with *)

InitModelFn ==
    /\ pc = "model_fn"
    /\ cli \in CliSpace
    /\ env \in [colab : {FALSE}, COLAB_TPU_ADDR : {None}, seed : 0..MaxSeed]
    /\ args = cli
    /\ log = <<>>
    /\ estimator = BuildEstimator(cli)
    /\ mode \in ModeKeys
    /\ graph = NoneObj
    /\ estimator_spec = NoneObj
    /\ dataset = train_input_fn(cli, env.seed)
    /\ batch = NoneObj
    /\ batches = 0
    /\ global_step = 0
    /\ train_calls = <<>>
    /\ stop_reason = None

CallModelFn ==
    /\ pc = "model_fn"
    /\ graph' = Layers(dataset.static_shapes.features)
    /\ estimator_spec' = model_fn(dataset.static_shapes.features,
                                  dataset.static_shapes.labels,
                                  mode, estimator.params)
    /\ pc' = "returned"
    /\ UNCHANGED <<cli, env, args, log, estimator, mode, dataset, batch,
                   batches, global_step, train_calls, stop_reason>>

ModelFnSpec == InitModelFn /\ [][CallModelFn]_vars

-----------------------------------------------------------------------------
(* The claims *)

AfterOverrides == pc \in {"ready", "built", "training", "done"}
FlagNames == {"model_dir", "max_steps", "train_batch_size",
              "save_checkpoints_steps", "use_tpu", "tpu"}

\* C1: the estimator class, its run configuration and the spec class that
\* model_fn returns all follow the one use_tpu value main receives: the TPU
\* classes exactly when it is true, the plain ones otherwise; a TPU
\* estimator is never paired with a plain spec, nor the reverse.
C1_AcceleratorConsistent ==
    /\ estimator # NoneObj =>
          /\ (estimator.kind = "TPUEstimator") <=> args.use_tpu
          /\ (estimator.kind = "Estimator") <=> ~args.use_tpu
          /\ (estimator.config.kind = "tpu.RunConfig") <=> args.use_tpu
          /\ (estimator.config.kind = "RunConfig") <=> ~args.use_tpu
    /\ estimator_spec # NoneObj =>
          /\ (estimator_spec.kind = "TPUEstimatorSpec") <=> args.use_tpu
          /\ (estimator_spec.kind = "EstimatorSpec") <=> ~args.use_tpu
          /\ (estimator.kind = "TPUEstimator")
                <=> (estimator_spec.kind = "TPUEstimatorSpec")

\* a run the notebook override switched to the TPU, model_fn having returned
C1_Witness ==
    /\ estimator_spec # NoneObj
    /\ estimator.kind = "TPUEstimator"
    /\ ~cli.use_tpu

\* the values main passes on from the namespace it receives
PassThrough ==
    /\ estimator # NoneObj =>
          /\ estimator.config.model_dir = args.model_dir
          /\ args.use_tpu =>
                /\ estimator.config.cluster.tpu = args.tpu
                /\ estimator.config.tpu_config.iterations_per_loop
                      = args.save_checkpoints_steps
                /\ estimator.config.save_checkpoints_steps
                      = args.save_checkpoints_steps
                /\ estimator.train_batch_size = args.train_batch_size
    /\ train_calls # <<>> =>
          train_calls[Len(train_calls)].max_steps = args.max_steps
    /\ (AfterOverrides /\ ~env.colab) => args = cli

IntFlags(a) == {a.max_steps, a.train_batch_size, a.save_checkpoints_steps}

\* C2, as amended: tpu, model_dir, save_checkpoints_steps (as
\* iterations_per_loop and as save_checkpoints_steps) and train_batch_size
\* reach the TPU configuration, and max_steps and model_dir reach train and
\* the run configuration in both modes, as main receives them (outside the
\* notebook: as parsed); num_shards = 8, save_summary_steps = 100,
\* eval_batch_size = 32 and export_to_tpu = False are fixed in the code.
C2_PassThroughAndFixed ==
    /\ PassThrough
    /\ (estimator # NoneObj /\ args.use_tpu) =>
          /\ estimator.config.tpu_config.num_shards = 8
          /\ estimator.config.save_summary_steps = 100
          /\ estimator.eval_batch_size = 32
          /\ estimator.export_to_tpu = FALSE

\* C2, as stated: besides the pass-through, no configuration value is
\* fixed independently of the flags, i.e. every value of the TPU
\* configuration is the value of some flag.
C2_NoFixedValue ==
    /\ PassThrough
    /\ (estimator # NoneObj /\ args.use_tpu) =>
          /\ {estimator.config.tpu_config.num_shards,
              estimator.config.tpu_config.iterations_per_loop,
              estimator.config.save_checkpoints_steps,
              estimator.config.save_summary_steps,
              estimator.train_batch_size,
              estimator.eval_batch_size} \subseteq IntFlags(args)
          /\ estimator.export_to_tpu \in {args.use_tpu}

\* a TPU estimator built and trained with a non-default checkpoint interval
C2_Witness ==
    /\ pc = "done"
    /\ estimator.kind = "TPUEstimator"
    /\ args.save_checkpoints_steps = 50
    /\ args.max_steps > 0

\* C3: every batch the input iterator yields has exactly batch_size
\* examples, each feature of shape 28x28x1 and each label in
\* 0..NUM_CLASSES-1, whatever the batch size and the position.
C3_FullBatches ==
    batch # NoneObj =>
        /\ Len(batch.features) = args.train_batch_size
        /\ Len(batch.labels) = args.train_batch_size
        /\ \A j \in 1..Len(batch.features) :
              batch.features[j].shape = <<28, 28, 1>>
        /\ \A j \in 1..Len(batch.labels) : batch.labels[j] \in 0..9

\* a second batch of a size that neither divides nor fits in 100 examples
C3_Witness ==
    /\ batch # NoneObj
    /\ batches >= 2
    /\ args.train_batch_size > data_size
    /\ data_size % args.train_batch_size # 0

\* C4: outside the notebook main receives the namespace as parsed; inside,
\* model_dir is the placeholder, tpu is 'grpc://' + COLAB_TPU_ADDR and
\* use_tpu is true exactly when that variable is set (else both as parsed),
\* and max_steps, train_batch_size, save_checkpoints_steps are as parsed.
C4_NotebookFrame ==
    AfterOverrides =>
        /\ ~env.colab => args = cli
        /\ env.colab =>
              /\ args.model_dir = "gs://your-gcs-bucket"
              /\ env.COLAB_TPU_ADDR # None =>
                    /\ args.tpu = "grpc://" \o env.COLAB_TPU_ADDR
                    /\ args.use_tpu
              /\ env.COLAB_TPU_ADDR = None =>
                    /\ args.tpu = cli.tpu
                    /\ args.use_tpu = cli.use_tpu
        /\ args.max_steps = cli.max_steps
        /\ args.train_batch_size = cli.train_batch_size
        /\ args.save_checkpoints_steps = cli.save_checkpoints_steps
        /\ DOMAIN args = FlagNames

\* main entered in the notebook with a TPU runtime, --use-tpu not given
C4_Witness ==
    /\ pc = "built"
    /\ env.colab
    /\ env.COLAB_TPU_ADDR # None
    /\ ~cli.use_tpu
    /\ cli.model_dir # "gs://your-gcs-bucket"

C6_LayerShapes ==
    graph # NoneObj =>
        LET n == args.train_batch_size
        IN  /\ graph.features = <<n, 28, 28, 1>>
            /\ graph.conv = <<n, 13, 13, 16>>
            /\ graph.max_pool = <<n, 5, 5, 16>>
            /\ graph.conv_1 = <<n, 5, 5, 32>>
            /\ graph.max_pool_1 = <<n, 2, 2, 32>>
            /\ graph.flattened = <<n, 128>>
            /\ graph.logits = <<n, 10>>

\* the graph built for a batch of more than one example
C6_Witness ==
    /\ graph # NoneObj
    /\ graph.features[1] > 1
    /\ pc = "training"

\* C7: the returned spec has a loss and a train_op exactly when the mode is
\* TRAIN, in either accelerator mode, and always has predictions.
C7_LossOnlyInTrain ==
    estimator_spec # NoneObj =>
        /\ (estimator_spec.loss # NoneObj) <=> (mode = TRAIN)
        /\ (estimator_spec.train_op # NoneObj) <=> (mode = TRAIN)
        /\ estimator_spec.predictions # NoneObj
        /\ estimator_spec.mode = mode

\* model_fn has returned for an evaluation on the TPU
C7_Witness ==
    /\ estimator_spec # NoneObj
    /\ mode = EVAL
    /\ args.use_tpu

\* C8: in TRAIN mode train_op is the RMSProp optimizer's minimize of the
\* loss with the global step, the optimizer wrapped in a CrossShardOptimizer
\* exactly when use_tpu is true; in the other modes there is no train_op.
C8_OptimizerWrapping ==
    estimator_spec # NoneObj =>
        IF mode = TRAIN
        THEN LET op == estimator_spec.train_op
             IN  /\ op.kind = "minimize"
                 /\ op.loss = estimator_spec.loss
                 /\ op.global_step = "global_step"
                 /\ (op.optimizer.kind = "CrossShardOptimizer")
                       <=> args.use_tpu
                 /\ args.use_tpu =>
                       op.optimizer.opt.kind = "RMSPropOptimizer"
                 /\ ~args.use_tpu =>
                       op.optimizer.kind = "RMSPropOptimizer"
        ELSE estimator_spec.train_op = NoneObj

\* model_fn has returned for training without the TPU
C8_Witness ==
    /\ estimator_spec # NoneObj
    /\ mode = TRAIN
    /\ ~args.use_tpu
    /\ pc = "returned"

Called(name, upto) == \E i \in 1..upto : log[i].call = name

\* C9: in the notebook the authentication precedes any credential upload,
\* the upload happens only with COLAB_TPU_ADDR set, and both precede main
\* and the training; outside the notebook neither ever happens.
C9_NotebookOrder ==
    /\ \A i \in 1..Len(log) :
          /\ log[i].call = "configure_gcs" =>
                /\ Called("auth.authenticate_user", i - 1)
                /\ env.COLAB_TPU_ADDR # None
          /\ (log[i].call \in {"main", "estimator.train"} /\ env.colab) =>
                /\ Called("auth.authenticate_user", i - 1)
                /\ env.COLAB_TPU_ADDR # None =>
                      Called("configure_gcs", i - 1)
          /\ log[i].call \in {"auth.authenticate_user", "configure_gcs"} =>
                /\ env.colab
                /\ ~Called("main", i - 1)
                /\ ~Called("estimator.train", i - 1)
    /\ ~env.colab =>
          /\ ~Called("auth.authenticate_user", Len(log))
          /\ ~Called("configure_gcs", Len(log))

\* a finished notebook run that authenticated, uploaded and then trained
C9_Witness ==
    /\ pc = "done"
    /\ Len(log) = 4
    /\ log[2].call = "configure_gcs"

====
